---------------------------- MODULE Spec2Model ----------------------------
(***************************************************************************)
(* Model of request_value.c, an LV2 plugin that forwards audio, decodes    *)
(* patch:Set messages arriving on its control port and, about two seconds  *)
(* after start, asks the host once to request a value from the user.       *)
(*                                                                         *)
(* The plugin instance (struct ReqVal) is the set of variables named after *)
(* its fields.  The host is the environment: it instantiates the plugin,   *)
(* connects ports, calls run() once per cycle and fills the control        *)
(* sequence with events of its choice.  run() is split at the iterations   *)
(* of its event loop (RunStart, RunEvent, RunEnd); the host cannot call    *)
(* anything else while pc = "loop".                                        *)
(***************************************************************************)
EXTENDS Integers, Sequences, FiniteSets

(* ------------------------------ bounds -------------------------------- *)

\* sample rates the host may instantiate with are 1 .. MaxRate
MaxRate == 2
\* n_samples of one run() call is in 0 .. MaxN
MaxN == 3
\* run() is called at most MaxCycles times
MaxCycles == 3
\* the host delivers at most MaxSamples samples in total
MaxSamples == 6
\* a control sequence holds at most MaxEvents events
MaxEvents == 2
\* an object event of the decoder specification has at most MaxProps members
MaxProps == 3

(* ----------------------------- constants ------------------------------ *)

\* The null pointer; every other pointer is the name of a host buffer.
NULL == "NULL"

\* The URIs map_uris() resolves, in the order it resolves them.
URIs ==
  << "atom:Blank", "atom:Object", "atom:URID", "atom:Float", "atom:Bool",
     "patch:Set", "patch:property", "patch:value", "#booltest", "#acktest" >>

\* The host's urid:map service: a stable non-zero id per URI.
HostMap ==
  [uri \in {URIs[i] : i \in DOMAIN URIs} |->
     CHOOSE i \in DOMAIN URIs : URIs[i] = uri]

\* An id the host has mapped for some URI the plugin never asks for.
OtherURID == Len(URIs) + 1

map_uris(map) ==
  [ atom_Blank     |-> map["atom:Blank"],
    atom_Object    |-> map["atom:Object"],
    atom_URID      |-> map["atom:URID"],
    atom_Float     |-> map["atom:Float"],
    atom_Bool      |-> map["atom:Bool"],
    patch_Set      |-> map["patch:Set"],
    patch_property |-> map["patch:property"],
    patch_value    |-> map["patch:value"],
    m_bool_test    |-> map["#booltest"],
    m_ack_test     |-> map["#acktest"] ]

\* calloc()ed ReqValURIs
NoURIs ==
  [ atom_Blank |-> 0, atom_Object |-> 0, atom_URID |-> 0, atom_Float |-> 0,
    atom_Bool |-> 0, patch_Set |-> 0, patch_property |-> 0, patch_value |-> 0,
    m_bool_test |-> 0, m_ack_test |-> 0 ]

\* The features a host can offer to instantiate().
Features == {"urid:map", "log:log", "ui:requestValue"}

VARIABLES
  handle,          \* what instantiate() returned: "none" before the call
  control,         \* self->control
  p_in,            \* self->p_in
  p_out,           \* self->p_out
  log,             \* self->log (TRUE: the host's log feature is present)
  request_value,   \* self->request_value (TRUE: present)
  dialog_message,  \* self->dialog_message
  uris,            \* self->uris
  sample_rate,     \* self->sample_rate
  sample_cnt,      \* self->sample_cnt
  request_sent,    \* self->request_sent
  pc,              \* "idle": between host calls; "loop": inside run()'s event loop
  n_samples,       \* argument of the run() call in progress
  evcount,         \* events of the sequence visited so far in this cycle
  ev,              \* the event visited last in this cycle
  called,          \* calls of parse_property made for ev
  ret,             \* what parse_property returned for ev
  logged,          \* what was logged for ev
  failures,        \* parse_property calls of this cycle that returned false
  req_calls,       \* host side: the calls of request_value->request received
  offered,         \* host side: the features given to instantiate()
  errlog,          \* host side: the error instantiate() logged
  cycle_no,        \* host side: number of run() calls started
  total,           \* host side: samples delivered by all run() calls started
  counted,         \* host side: samples delivered with a control sequence connected
  last_conn,       \* host side: the last run() call had a control sequence
  cross_cycle,     \* host side: first cycle whose cumulative total exceeded 2*rate
  elig_cycle,      \* host side: first connected cycle started with sample_cnt > 2*rate
  mem,             \* host side: the samples held by each audio buffer
  last_port,       \* host side: port of the connect_port call made since the last run()
  last_data        \* host side: data of that call

self == << control, p_in, p_out, log, request_value, dialog_message, uris,
           sample_rate, sample_cnt, request_sent >>
cur  == << pc, n_samples, evcount, ev, called, ret, logged, failures >>
host == << req_calls, offered, errlog, cycle_no, total, counted, last_conn,
           cross_cycle, elig_cycle >>
conn == << last_port, last_data >>
vars == << handle, self, cur, host, mem, conn >>


(* ------------------------- atoms and events --------------------------- *)

\* An LV2_Atom header with the first word of its body.
Atom(t, v) == [type |-> t, body |-> v]

\* What lv2_atom_object_get leaves in its out-pointer when no member matches.
NoAtom == Atom(0, 0)

\* One member (LV2_Atom_Property_Body) of an object: key and value atom.
Member(k, a) == [key |-> k, value |-> a]

\* An event of the control sequence: atom type, and for objects the otype and
\* the members in the order they are stored.
Event(t, o, ps) == [type |-> t, otype |-> o, props |-> ps]

\* Value of ev while no event of the cycle has been visited.
NoEvent == Event(0, 0, << >>)

\* The value atoms the host writes: URIDs of the two properties, the two
\* booleans as lv2_atom_forge_bool writes them (int32 1 and 0), and a float
\* atom whose bits happen to read as the id of #booltest.
Atoms(u) ==
  { Atom(u.atom_URID, u.m_bool_test), Atom(u.atom_URID, u.m_ack_test),
    Atom(u.atom_Bool, 1), Atom(u.atom_Bool, 0),
    Atom(u.atom_Float, u.m_bool_test) }

Keys(u) == { u.patch_property, u.patch_value }

Members(u) == { Member(k, a) : k \in Keys(u), a \in Atoms(u) }

\* All member lists of length 0 .. n.
RECURSIVE PropLists(_, _)
PropLists(u, n) ==
  IF n = 0 THEN { << >> }
  ELSE LET shorter == PropLists(u, n - 1)
       IN  shorter \cup
           { Append(ps, m) : ps \in {x \in shorter : Len(x) = n - 1},
                             m \in Members(u) }

\* Events that are not objects (the body is never read by run()).
PlainEvents(u) ==
  { Event(t, 0, << >>) : t \in {u.atom_Float, u.atom_Blank, u.atom_URID} }

\* Every event with up to MaxProps members: the inputs of the decoder
\* specification.
AllEvents(u) ==
  PlainEvents(u) \cup
  { Event(t, o, ps) : t \in {u.atom_Object, u.atom_Blank},
                      o \in {u.patch_Set, OtherURID},
                      ps \in PropLists(u, MaxProps) }

\* The events the host puts into a cycle of the plugin specification: one of
\* each shape run() and parse_property tell apart.
CycleEvents(u) ==
  LET P(a)  == Member(u.patch_property, a)
      V(a)  == Member(u.patch_value, a)
      bt    == Atom(u.atom_URID, u.m_bool_test)
      ack   == Atom(u.atom_URID, u.m_ack_test)
      flt   == Atom(u.atom_Float, u.m_bool_test)
      T     == Atom(u.atom_Bool, 1)
      F     == Atom(u.atom_Bool, 0)
      Set(ps) == Event(u.atom_Object, u.patch_Set, ps)
  IN  { Event(u.atom_Float, 0, << >>),
        Event(u.atom_Blank, u.patch_Set, << P(bt), V(T) >>),
        Event(u.atom_Object, OtherURID, << P(bt), V(T) >>),
        Set(<< P(bt), V(T) >>),
        Set(<< V(F), P(bt) >>),
        Set(<< V(T) >>),
        Set(<< P(flt), V(T) >>),
        Set(<< P(bt) >>),
        Set(<< P(bt), V(flt) >>),
        Set(<< P(ack), V(T) >>) }

(* ----------------------------- the decoder ---------------------------- *)

\* lv2_atom_object_get (obj, key, &out, 0): the value of the first member
\* stored under key, or the out-pointer left NULL.
lv2_atom_object_get(obj, key) ==
  IF \E i \in DOMAIN obj.props : obj.props[i].key = key
  THEN LET i == CHOOSE i \in DOMAIN obj.props :
                  /\ obj.props[i].key = key
                  /\ \A j \in 1 .. (i - 1) : obj.props[j].key # key
       IN  obj.props[i].value
  ELSE NoAtom

\* property->type != self->uris.atom_URID
NonURIDProperty(u, property) == property.type # u.atom_URID

\* ((LV2_Atom_URID*)property)->body == self->uris.m_bool_test
IsBoolTest(u, property) == property.body = u.m_bool_test

\* A decoder that takes a value of any type for the boolean.
NotBoolValue_Never(u, val) == FALSE

\* val->type != self->uris.atom_Bool
NotBoolValue(u, val) == val.type # u.atom_Bool

\* A decoder that reads the byte after the first one.
ReadBool_SecondByte(val) == (val.body \div 256) % 256

\* bool b = *((bool*)(val + 1)): the first byte of the body, which for the
\* int32 1 or 0 of a little-endian build is 1 or 0.
ReadBool(val) == val.body % 256

\* The result of one parse_property call: the return value, the log call it
\* made and, when it got that far, the boolean it read (-1: none read).
Parsed(r, lvl, msg, bval) == [ret |-> r, level |-> lvl, msg |-> msg, b |-> bval]

\* A decoder that looks for the value before it looks at the property's type.
parse_property_ValueFirst(u, obj) ==
  LET property == lv2_atom_object_get(obj, u.patch_property)
      val      == lv2_atom_object_get(obj, u.patch_value)
  IN  IF property = NoAtom
        THEN Parsed(FALSE, "error", "Malformed set message has no body.", -1)
      ELSE IF val = NoAtom
        THEN Parsed(FALSE, "error", "Malformed set message has no value.", -1)
      ELSE IF NonURIDProperty(u, property)
        THEN Parsed(FALSE, "error", "Malformed set message has non-URID property.", -1)
      ELSE IF IsBoolTest(u, property)
        THEN IF NotBoolValue(u, val)
               THEN Parsed(FALSE, "error", "Invalid property type, expected 'bool'.", -1)
               ELSE Parsed(TRUE, "note", "Received boolean", ReadBool(val))
      ELSE Parsed(FALSE, "error", "Set message for unknown property.", -1)

\* static inline bool parse_property (ReqVal* self, const LV2_Atom_Object* obj)
parse_property(u, obj) ==
  LET property == lv2_atom_object_get(obj, u.patch_property)
      val      == lv2_atom_object_get(obj, u.patch_value)
  IN  IF property = NoAtom
        THEN Parsed(FALSE, "error", "Malformed set message has no body.", -1)
      ELSE IF NonURIDProperty(u, property)
        THEN Parsed(FALSE, "error", "Malformed set message has non-URID property.", -1)
      ELSE IF val = NoAtom
        THEN Parsed(FALSE, "error", "Malformed set message has no value.", -1)
      ELSE IF IsBoolTest(u, property)
        THEN IF NotBoolValue(u, val)
               THEN Parsed(FALSE, "error", "Invalid property type, expected 'bool'.", -1)
               ELSE Parsed(TRUE, "note", "Received boolean", ReadBool(val))
      ELSE Parsed(FALSE, "error", "Set message for unknown property.", -1)

\* What the logger does with a message: the host's log feature when the host
\* gave one, a plain print otherwise.
LogLine(haslog, lvl, msg) ==
  [sink |-> IF haslog THEN "log:log" ELSE "stderr", level |-> lvl, msg |-> msg]

NoLog == [sink |-> "none", level |-> "none", msg |-> ""]

(* --------------------------- the dispatcher --------------------------- *)

\* A dispatcher that also takes legacy atom:Blank events for objects.
NotObject_BlankToo(u, e) == e.type \notin {u.atom_Object, u.atom_Blank}

\* ev->body.type != self->uris.atom_Object  (the event is skipped)
NotObject(u, e) == e.type # u.atom_Object

\* obj->body.otype == self->uris.patch_Set
IsPatchSet(u, e) == e.otype = u.patch_Set

(* -------------------------- the audio copy ---------------------------- *)

\* Every audio buffer of the host holds BufLen samples, one more than the
\* longest cycle.
BufLen == MaxN + 1

\* A copy that takes n for the number of bytes, not of floats.
memcpy_NoSizeof(m, dst, src, n) ==
  [m EXCEPT ![dst] = [i \in 1 .. BufLen |->
                        IF i <= n \div 4 THEN m[src][i] ELSE m[dst][i]]]

\* memcpy (dst, src, sizeof (float) * n): samples 1 .. n of src over those of
\* dst, the rest of dst as it was.
memcpy(m, dst, src, n) ==
  [m EXCEPT ![dst] = [i \in 1 .. BufLen |->
                        IF i <= n THEN m[src][i] ELSE m[dst][i]]]

\* if (self->p_out != self->p_in) memcpy (self->p_out, self->p_in, ...)
ForwardAudio(m, out, in, n) ==
  IF out # in THEN memcpy(m, out, in, n) ELSE m

(* ------------------------ the request machine ------------------------- *)

\* A guard that does not look at request_sent.
RequestDue_NoLatch(sent, cnt, rate) == cnt > 2 * rate

\* A guard that fires on reaching the threshold instead of exceeding it.
RequestDue_AtThreshold(sent, cnt, rate) == ~sent /\ cnt >= 2 * rate

\* A guard that does not wait for the threshold.
RequestDue_NoThreshold(sent, cnt, rate) == ~sent

\* !self->request_sent && self->sample_cnt > 2 * self->sample_rate
RequestDue(sent, cnt, rate) == ~sent /\ cnt > 2 * rate

\* The number of values of the unsigned sample_cnt, on the scale of the
\* model: as in the plugin, where it is 2^64 against 32-bit cycle lengths, a
\* count that is not above any threshold cannot wrap in one cycle.
SampleCntRange == 2 * MaxRate + MaxN + 1

\* A counter that is assigned instead of added to.
NextSampleCnt_Overwrite(cnt, n) == n

\* self->sample_cnt += n_samples
NextSampleCnt(cnt, n) == (cnt + n) % SampleCntRange

\* A run() without the early return.
ControlAbsent_Never(c) == FALSE

\* if (!self->control) return;
ControlAbsent(c) == c = NULL

\* self->dialog_message as instantiate() leaves it
InitialMessage == [msg |-> NULL, requires_return |-> TRUE]

\* A request whose payload still asks for the answer to be returned.
RequestMessage_NeedsReturn == [msg |-> "FOO BAR!", requires_return |-> TRUE]

\* self->dialog_message as the request leaves it
RequestMessage == [msg |-> "FOO BAR!", requires_return |-> FALSE]

\* An instantiate() that also insists on the log feature.
HostSupported_NeedsLog(feats) == Features \subseteq feats

\* instantiate() returns an instance
HostSupported(feats) == "ui:requestValue" \in feats /\ "urid:map" \in feats

\* The error instantiate() logs before it returns NULL.
InstantiateError(feats) ==
  IF "ui:requestValue" \notin feats
    THEN "Host does not support ui:request_value"
  ELSE IF "urid:map" \notin feats
    THEN "Host does not support urid:map"
  ELSE "none"


(* ------------------------------ the host ------------------------------ *)

\* The buffers the host owns: an event sequence, the audio input buffer, and
\* a second audio buffer for hosts that do not process in place.
SeqBufs == {"seq"}
InBufs  == {"bufA"}
OutBufs == {"bufA", "bufB"}

\* What the host passes to connect_port for each port index.  Only the
\* control port is ever left or made unconnected.
PortData(port) ==
  IF port = 0 THEN SeqBufs \cup {NULL}
  ELSE IF port = 1 THEN InBufs
  ELSE OutBufs

Ports == 0 .. 3

\* Value of last_port while no connect_port call is on record.
NoPort == -1

Rates == 1 .. MaxRate

\* The host's audio memory before the first cycle: the input holds the
\* samples 1, 2, .. and the second buffer silence.
InitialMem ==
  [b \in InBufs \cup OutBufs |->
     [i \in 1 .. BufLen |-> IF b \in InBufs THEN i ELSE 0]]

NotParsed == Parsed(FALSE, "none", "", -1)

Init ==
  /\ handle = "none"
  /\ control = NULL /\ p_in = NULL /\ p_out = NULL
  /\ log = FALSE /\ request_value = FALSE
  /\ dialog_message = [msg |-> NULL, requires_return |-> FALSE]
  /\ uris = NoURIs
  /\ sample_rate = 0 /\ sample_cnt = 0 /\ request_sent = FALSE
  /\ pc = "idle" /\ n_samples = 0 /\ evcount = 0
  /\ ev = NoEvent /\ called = 0 /\ ret = NotParsed /\ logged = NoLog
  /\ failures = 0
  /\ req_calls = << >> /\ offered = {} /\ errlog = "none"
  /\ cycle_no = 0 /\ total = 0 /\ counted = 0 /\ last_conn = FALSE
  /\ cross_cycle = 0 /\ elig_cycle = 0
  /\ mem = InitialMem
  /\ last_port = NoPort /\ last_data = NULL

\* instantiate (descriptor, rate, bundle_path, features)
Instantiate(rate, feats) ==
  /\ handle = "none"
  /\ offered' = feats
  /\ errlog' = InstantiateError(feats)
  /\ IF HostSupported(feats)
       THEN /\ handle' = "instance"
            /\ log' = ("log:log" \in feats)
            /\ request_value' = TRUE
            /\ uris' = map_uris(HostMap)
            /\ sample_rate' = rate
            /\ sample_cnt' = 0
            /\ request_sent' = FALSE
            /\ dialog_message' = InitialMessage
            /\ UNCHANGED << control, p_in, p_out >>
       ELSE /\ handle' = NULL
            /\ UNCHANGED self
  /\ UNCHANGED << cur, req_calls, cycle_no, total, counted, last_conn,
                  cross_cycle, elig_cycle, mem, conn >>

\* Between run() calls a connect_port call closes the host's record of the
\* cycle that has ended.
CycleClosed ==
  /\ n_samples' = 0 /\ evcount' = 0 /\ ev' = NoEvent
  /\ called' = 0 /\ ret' = NotParsed /\ logged' = NoLog
  /\ failures' = 0

\* A switch whose cases lack their break: the lower cases fall through.
Bound_FallThrough(index, port, data, old) ==
  IF port <= index THEN data ELSE old

\* case index: self-><field> = data; break;  (the field after the call)
Bound(index, port, data, old) == IF port = index THEN data ELSE old

\* A connect_port that starts the request over when the control port is
\* connected again.
ConnectPort_Resets(port, data) ==
  /\ handle = "instance" /\ pc = "idle"
  /\ control' = Bound(0, port, data, control)
  /\ p_in'    = Bound(1, port, data, p_in)
  /\ p_out'   = Bound(2, port, data, p_out)
  /\ request_sent' = IF port = 0 THEN FALSE ELSE request_sent
  /\ last_port' = port /\ last_data' = data
  /\ CycleClosed
  /\ UNCHANGED << handle, log, request_value, dialog_message, uris,
                  sample_rate, sample_cnt, pc, host, mem >>

\* connect_port (instance, port, data)
ConnectPort(port, data) ==
  /\ handle = "instance" /\ pc = "idle"
  /\ control' = Bound(0, port, data, control)
  /\ p_in'    = Bound(1, port, data, p_in)
  /\ p_out'   = Bound(2, port, data, p_out)
  /\ last_port' = port /\ last_data' = data
  /\ CycleClosed
  /\ UNCHANGED << handle, log, request_value, dialog_message, uris,
                  sample_rate, sample_cnt, request_sent, pc, host, mem >>

\* run (instance, n): the audio copy and the test of self->control.  With no
\* control sequence run() returns here; otherwise it enters the event loop.
RunStart(n) ==
  /\ handle = "instance" /\ pc = "idle"
  /\ p_in # NULL /\ p_out # NULL
  /\ cycle_no < MaxCycles /\ total + n <= MaxSamples
  /\ mem' = ForwardAudio(mem, p_out, p_in, n)
  /\ last_port' = NoPort /\ last_data' = NULL
  /\ cycle_no' = cycle_no + 1
  /\ total' = total + n
  /\ cross_cycle' = IF cross_cycle = 0 /\ total + n > 2 * sample_rate
                      THEN cycle_no + 1 ELSE cross_cycle
  /\ last_conn' = (control # NULL)
  /\ counted' = IF control # NULL THEN counted + n ELSE counted
  /\ elig_cycle' = IF elig_cycle = 0 /\ control # NULL
                        /\ sample_cnt > 2 * sample_rate
                     THEN cycle_no + 1 ELSE elig_cycle
  /\ n_samples' = n
  /\ evcount' = 0 /\ ev' = NoEvent /\ called' = 0
  /\ ret' = NotParsed /\ logged' = NoLog
  /\ failures' = 0
  /\ pc' = IF ControlAbsent(control) THEN "idle" ELSE "loop"
  /\ UNCHANGED << handle, self, req_calls, offered, errlog >>

\* What the host's sequence can hold next: nothing outside the event loop or
\* once the sequence is full, any event of the alphabet otherwise.
Remaining(alphabet) ==
  IF pc = "loop" /\ evcount < MaxEvents THEN alphabet ELSE {}

\* An event loop that gives up the cycle when the decoder fails.
RunEvent_ReturnOnError(e) ==
  /\ pc = "loop" /\ evcount < MaxEvents
  /\ evcount' = evcount + 1
  /\ ev' = e
  /\ IF NotObject(uris, e)
       THEN /\ called' = 0 /\ ret' = NotParsed /\ logged' = NoLog
            /\ UNCHANGED << failures, pc >>
     ELSE IF IsPatchSet(uris, e)
       THEN LET r == parse_property(uris, e)
            IN  /\ called' = 1
                /\ ret' = r
                /\ logged' = LogLine(log, r.level, r.msg)
                /\ failures' = IF r.ret THEN failures ELSE failures + 1
                /\ pc' = IF r.ret THEN pc ELSE "idle"
     ELSE /\ called' = 0 /\ ret' = NotParsed /\ logged' = NoLog
          /\ UNCHANGED << failures, pc >>
  /\ UNCHANGED << handle, self, n_samples, host, mem, conn >>

\* One iteration of LV2_ATOM_SEQUENCE_FOREACH over the event e.
RunEvent(e) ==
  /\ pc = "loop" /\ evcount < MaxEvents
  /\ evcount' = evcount + 1
  /\ ev' = e
  /\ IF NotObject(uris, e)
       THEN /\ called' = 0 /\ ret' = NotParsed /\ logged' = NoLog
            /\ UNCHANGED failures
     ELSE IF IsPatchSet(uris, e)
       THEN LET r == parse_property(uris, e)
            IN  /\ called' = 1
                /\ ret' = r
                /\ logged' = LogLine(log, r.level, r.msg)
                /\ failures' = IF r.ret THEN failures ELSE failures + 1
     ELSE /\ called' = 0 /\ ret' = NotParsed /\ logged' = NoLog
          /\ UNCHANGED failures
  /\ UNCHANGED << handle, self, pc, n_samples, host, mem, conn >>

\* A run() that adds the cycle's samples before it tests the threshold.
RunEnd_CountFirst ==
  /\ pc = "loop"
  /\ IF RequestDue(request_sent, sample_cnt + n_samples, sample_rate)
       THEN /\ request_sent' = TRUE
            /\ dialog_message' = RequestMessage
            /\ req_calls' = Append(req_calls,
                 [ cycle    |-> cycle_no,
                   total    |-> total,
                   elapsed  |-> sample_cnt,
                   property |-> uris.m_bool_test,
                   type     |-> uris.atom_Bool,
                   sent     |-> request_sent',
                   message  |-> dialog_message' ])
       ELSE UNCHANGED << request_sent, dialog_message, req_calls >>
  /\ sample_cnt' = NextSampleCnt(sample_cnt, n_samples)
  /\ pc' = "idle"
  /\ UNCHANGED << handle, control, p_in, p_out, log, request_value, uris,
                  sample_rate, n_samples, evcount, ev, called, ret, logged,
                  failures, offered, errlog, cycle_no, total, counted, last_conn, cross_cycle,
                  elig_cycle, mem, conn >>

\* The end of the sequence: the request state machine and the sample count.
RunEnd ==
  /\ pc = "loop"
  /\ IF RequestDue(request_sent, sample_cnt, sample_rate)
       THEN /\ request_sent' = TRUE
            /\ dialog_message' = RequestMessage
            /\ req_calls' = Append(req_calls,
                 [ cycle    |-> cycle_no,
                   total    |-> total,
                   elapsed  |-> sample_cnt,
                   property |-> uris.m_bool_test,
                   type     |-> uris.atom_Bool,
                   sent     |-> request_sent',
                   message  |-> dialog_message' ])
       ELSE UNCHANGED << request_sent, dialog_message, req_calls >>
  /\ sample_cnt' = NextSampleCnt(sample_cnt, n_samples)
  /\ pc' = "idle"
  /\ UNCHANGED << handle, control, p_in, p_out, log, request_value, uris,
                  sample_rate, n_samples, evcount, ev, called, ret, logged,
                  failures, offered, errlog, cycle_no, total, counted, last_conn, cross_cycle,
                  elig_cycle, mem, conn >>

\* cleanup (instance)
Cleanup ==
  /\ handle = "instance" /\ pc = "idle"
  /\ handle' = "freed"
  /\ UNCHANGED << self, cur, host, mem, conn >>

Next ==
  \/ \E rate \in Rates, feats \in SUBSET Features : Instantiate(rate, feats)
  \/ \E port \in Ports : \E data \in PortData(port) : ConnectPort(port, data)
  \/ \E n \in 0 .. MaxN : RunStart(n)
  \/ \E e \in Remaining(CycleEvents(uris)) : RunEvent(e)
  \/ RunEnd
  \/ Cleanup

Spec == Init /\ [][Next]_vars


(* ---------------------- the decoder specification ---------------------- *)

\* The decoder and the dispatcher as functions of one event: the instance is
\* in the event loop of its first cycle, MaxEvents - 1 plain events have been
\* skipped, and the last event of the sequence is any event of AllEvents.
InitDecode ==
  /\ handle = "instance"
  /\ control \in SeqBufs /\ p_in \in InBufs /\ p_out \in OutBufs
  /\ log \in BOOLEAN /\ request_value = TRUE
  /\ dialog_message = InitialMessage
  /\ uris = map_uris(HostMap)
  /\ sample_rate \in Rates /\ sample_cnt = 0 /\ request_sent = FALSE
  /\ pc = "loop" /\ n_samples = 0 /\ evcount = MaxEvents - 1
  /\ ev = Event(uris.atom_Float, 0, << >>)
  /\ called = 0 /\ ret = NotParsed /\ logged = NoLog
  /\ failures = 0
  /\ req_calls = << >> /\ errlog = "none"
  /\ offered = IF log THEN Features ELSE Features \ {"log:log"}
  /\ cycle_no = 1 /\ total = 0 /\ counted = 0 /\ last_conn = TRUE
  /\ cross_cycle = 0 /\ elig_cycle = 0
  /\ mem = InitialMem
  /\ last_port = NoPort /\ last_data = NULL

NextDecode == \E e \in Remaining(AllEvents(uris)) : RunEvent(e)

SpecDecode == InitDecode /\ [][NextDecode]_vars


(* ------------------- the plugin in a host that runs on ------------------ *)

\* run (instance, n) in a host that keeps calling it: the code is that of
\* RunStart; the host no longer numbers its cycles or adds up its samples.
RunStartLive(n) ==
  /\ handle = "instance" /\ pc = "idle"
  /\ p_in # NULL /\ p_out # NULL
  /\ mem' = ForwardAudio(mem, p_out, p_in, n)
  /\ last_port' = NoPort /\ last_data' = NULL
  /\ last_conn' = (control # NULL)
  /\ n_samples' = n
  /\ evcount' = 0 /\ ev' = NoEvent /\ called' = 0
  /\ ret' = NotParsed /\ logged' = NoLog
  /\ failures' = 0
  /\ pc' = IF ControlAbsent(control) THEN "idle" ELSE "loop"
  /\ UNCHANGED << handle, self, req_calls, offered, errlog, cycle_no, total,
                  counted, cross_cycle, elig_cycle >>

\* The events of a cycle in that host: a well-formed set of #booltest, a
\* malformed set (no property), a set of an unknown property, and an event
\* that is no object.
LiveEvents(u) ==
  LET P(a)  == Member(u.patch_property, a)
      V(a)  == Member(u.patch_value, a)
      T     == Atom(u.atom_Bool, 1)
      Set(ps) == Event(u.atom_Object, u.patch_Set, ps)
  IN  { Set(<< P(Atom(u.atom_URID, u.m_bool_test)), V(T) >>),
        Set(<< V(T) >>),
        Set(<< P(Atom(u.atom_URID, u.m_ack_test)), V(T) >>),
        Event(u.atom_Float, 0, << >>) }

NextLive ==
  \/ \E rate \in Rates, feats \in SUBSET Features : Instantiate(rate, feats)
  \/ \E port \in Ports : \E data \in PortData(port) : ConnectPort(port, data)
  \/ \E n \in 0 .. MaxN : RunStartLive(n)
  \/ \E e \in Remaining(LiveEvents(uris)) : RunEvent(e)
  \/ RunEnd
  \/ Cleanup

\* run() returns: its loop is over a finite sequence and nothing in it
\* waits, so a cycle that has entered the loop reaches its end.
SpecLive == Init /\ [][NextLive]_vars /\ WF_vars(RunEnd)


(* ------------------------------- claims -------------------------------- *)

\* The member parse_property takes for the property and for the value.
PropertyOf(e) == lv2_atom_object_get(e, uris.patch_property)
ValueOf(e)    == lv2_atom_object_get(e, uris.patch_value)

\* The step is one iteration of the event loop.
EventStep == pc = "loop" /\ evcount' = evcount + 1

\* The step is the part of run() after the event loop.
EndStep == pc = "loop" /\ pc' = "idle"

\* The step is a whole run() call made with no control sequence.
NullRunStep == pc = "idle" /\ cycle_no' = cycle_no + 1 /\ control = NULL

\* C1: the host's request operation is invoked at most once per instance,
\* whatever cycles are run.
C1_AtMostOneRequest == Len(req_calls) <= 1

\* C1 witness: the request was issued and a later connected cycle has
\* completed without a second one.
C1_Witness ==
  /\ pc = "idle" /\ last_conn
  /\ Len(req_calls) = 1
  /\ cycle_no > req_calls[1].cycle

\* C2 as stated, in its own scenario of cycles that all have a control
\* sequence: once the cumulative sample count has exceeded 2 * sample_rate,
\* the request has been issued, once, in the cycle that crossed the boundary.
C2_FiresOnCrossingCycle ==
  (pc = "idle" /\ total = counted /\ cross_cycle # 0) =>
     (Len(req_calls) = 1 /\ req_calls[1].cycle = cross_cycle)

\* C2 amended: the request is issued exactly once, in the first cycle that
\* has a control sequence and starts with the elapsed count above
\* 2 * sample_rate, which is later than the cycle that crossed the boundary.
C2_FiresOnFirstCycleStartedAboveThreshold ==
  pc = "idle" =>
    /\ Len(req_calls) <= 1
    /\ (Len(req_calls) = 1) <=> (elig_cycle # 0)
    /\ Len(req_calls) = 1 =>
         /\ req_calls[1].cycle = elig_cycle
         /\ cross_cycle # 0
         /\ cross_cycle < req_calls[1].cycle

\* C2 witness: every cycle had a control sequence, the total crossed
\* 2 * sample_rate by one sample in one cycle and the request was issued in
\* the next.
C2_Witness ==
  /\ pc = "idle" /\ Len(req_calls) = 1
  /\ total = counted
  /\ req_calls[1].elapsed = 2 * sample_rate + 1
  /\ req_calls[1].cycle = cross_cycle + 1

\* C3: the request is never issued before the threshold: request_sent
\* implies an elapsed count above 2 * sample_rate, and every request was
\* issued in a cycle that ended with a cumulative count above 2 * sample_rate.
C3_NeverBeforeThreshold ==
  /\ request_sent => sample_cnt > 2 * sample_rate
  /\ \A i \in DOMAIN req_calls :
       /\ req_calls[i].elapsed > 2 * sample_rate
       /\ req_calls[i].total > 2 * sample_rate

\* C3 witness: the request was issued with the elapsed count one above the
\* threshold.
C3_Witness ==
  /\ request_sent /\ Len(req_calls) = 1
  /\ req_calls[1].elapsed = 2 * sample_rate + 1

\* C4 as stated: between cycles the elapsed count is the sum of n_samples of
\* all run() calls made.
C4_CountsEveryCycle == pc = "idle" => sample_cnt = total

\* C4 amended: the elapsed count never decreases and between cycles it is the
\* sum of n_samples of the run() calls made with a control sequence
\* connected; a call made without one adds nothing.
C4_CountsConnectedCycles ==
  [][ /\ sample_cnt' >= sample_cnt
      /\ pc' = "idle" => sample_cnt' = counted'
      /\ NullRunStep => sample_cnt' = sample_cnt ]_vars

\* C4 witness: cycles with and without a control sequence have delivered
\* samples.
C4_Witness ==
  /\ pc = "idle" /\ sample_cnt > 0 /\ total > counted

\* C5 as stated: a cycle without a control sequence that starts in Idle with
\* the elapsed count above 2 * sample_rate issues the request.
C5_NullControlStillRequests ==
  [][ (NullRunStep /\ ~request_sent /\ sample_cnt > 2 * sample_rate)
        => Len(req_calls') = Len(req_calls) + 1 ]_vars

\* C5 amended: without a control sequence run() returns after the audio copy:
\* the request state machine and the sample count are skipped with the
\* dispatcher, so no request is issued even when the threshold is exceeded.
C5_NullControlSkipsStateMachine ==
  [][ NullRunStep =>
        /\ pc' = "idle"
        /\ UNCHANGED << request_sent, sample_cnt, dialog_message, req_calls >>
        /\ called' = 0 ]_vars

\* C5 witness: a cycle without a control sequence has just run with the
\* request due, and nothing was requested.
C5_Witness ==
  /\ pc = "idle" /\ cycle_no >= 1 /\ ~last_conn
  /\ ~request_sent /\ sample_cnt > 2 * sample_rate
  /\ req_calls = << >>

\* The defects of a set event that C6 lists.
C6_Defective(e) ==
  \/ PropertyOf(e) = NoAtom
  \/ ValueOf(e) = NoAtom
  \/ PropertyOf(e).type # uris.atom_URID
  \/ PropertyOf(e).body = uris.m_bool_test /\ ValueOf(e).type # uris.atom_Bool
  \/ PropertyOf(e).body # uris.m_bool_test

\* C6: for a set event with one of the listed defects the decoder returns
\* failure and logs an error, the instance and the host's requests are as
\* before, and run() stays in its loop.
C6_DefectiveSetIsIsolated ==
  [][ (EventStep /\ called' = 1 /\ C6_Defective(ev')) =>
        /\ ret'.ret = FALSE /\ ret'.level = "error"
        /\ logged'.level = "error"
        /\ UNCHANGED << self, req_calls, handle >>
        /\ pc' = "loop" ]_vars

\* C6 witness: a cycle whose last event was a set for #booltest with a
\* non-Bool value has completed.
C6_Witness ==
  /\ pc = "idle" /\ last_conn /\ called = 1
  /\ ret.ret = FALSE
  /\ PropertyOf(ev).type = uris.atom_URID
  /\ PropertyOf(ev).body = uris.m_bool_test
  /\ ValueOf(ev) # NoAtom /\ ValueOf(ev).type # uris.atom_Bool

\* C7: the decoder is called once for an event that is an object of otype
\* patch:Set and not at all for any other event.
C7_DecoderCalledOnlyForSet ==
  ev # NoEvent =>
    /\ called \in {0, 1}
    /\ (called = 1) <=>
         (ev.type = uris.atom_Object /\ ev.otype = uris.patch_Set)
    /\ called = 0 => (ret = NotParsed /\ logged = NoLog)

\* C7 witness: the second event of a cycle, not an object but carrying the
\* members of a well-formed set, was skipped.
C7_Witness ==
  /\ evcount = 2 /\ called = 0
  /\ ev.type = uris.atom_Blank /\ ev.otype = uris.patch_Set
  /\ Len(ev.props) = 2

\* The event has a URID property member naming #booltest and a Bool value.
WellFormedBoolSet(e) ==
  /\ PropertyOf(e) # NoAtom /\ ValueOf(e) # NoAtom
  /\ PropertyOf(e).type = uris.atom_URID
  /\ PropertyOf(e).body = uris.m_bool_test
  /\ ValueOf(e).type = uris.atom_Bool

\* C8: the decoder succeeds exactly for the events with a URID property
\* naming #booltest and a Bool value, and then reports the boolean the event
\* encodes (1 for an encoded 1, 0 for an encoded 0).
C8_DecodesEncodedBoolean ==
  called = 1 =>
    /\ ret.ret <=> WellFormedBoolSet(ev)
    /\ ret.ret => (ret.b = ValueOf(ev).body /\ ret.level = "note")
    /\ ~ret.ret => ret.b = -1

\* C8 witness: a set event with an extra member decoded as true.
C8_Witness ==
  /\ called = 1 /\ ret.ret /\ ret.b = 1
  /\ ValueOf(ev) = Atom(uris.atom_Bool, 1)
  /\ Len(ev.props) = 3

\* C9: instantiate() returns an instance exactly when the host offers both
\* urid:map and ui:requestValue, NULL otherwise, whether or not it offers
\* log:log; a new instance has request_sent = FALSE and sample_cnt = 0.
C9_InstantiateNeedsMapAndRequest ==
  handle # "none" =>
    /\ (handle # NULL) <=> ({"urid:map", "ui:requestValue"} \subseteq offered)
    /\ (handle = NULL) => errlog # "none"
    /\ (handle = "instance" /\ cycle_no = 0) =>
         /\ ~request_sent /\ sample_cnt = 0
         /\ errlog = "none"

\* C9 witness: an instance made by a host without the log feature.
C9_Witness ==
  /\ handle = "instance" /\ cycle_no = 0
  /\ "log:log" \notin offered

\* The event is a well-formed set of #booltest to true.
C10_SetTrue(e) ==
  /\ e.type = uris.atom_Object /\ e.otype = uris.patch_Set
  /\ WellFormedBoolSet(e)
  /\ ValueOf(e).body = 1

\* C10: decoding never triggers the request.  An iteration of the event loop
\* changes neither the request state nor the host's requests, a well-formed
\* set to true is decoded as true, a cycle started at or below the threshold
\* issues nothing, and a cycle issues the request exactly when it is the
\* first connected cycle started above the threshold, whatever its events.
C10_DecodingNeverTriggersRequest ==
  [][ /\ EventStep =>
           UNCHANGED << req_calls, request_sent, sample_cnt, dialog_message >>
      /\ (EventStep /\ C10_SetTrue(ev')) => (ret'.ret /\ ret'.b = 1)
      /\ (EndStep /\ sample_cnt <= 2 * sample_rate) => req_calls' = req_calls
      /\ EndStep => ((Len(req_calls') = Len(req_calls) + 1)
                       <=> (elig_cycle = cycle_no)) ]_vars

\* C10 witness: a cycle whose last event was a well-formed set to true has
\* completed below the threshold with nothing requested.
C10_Witness ==
  /\ pc = "idle" /\ last_conn
  /\ C10_SetTrue(ev) /\ ret.ret /\ ret.b = 1
  /\ sample_cnt <= 2 * sample_rate
  /\ req_calls = << >>

\* The step is the start of a run() call, which holds the audio copy.
StartStep == pc = "idle" /\ cycle_no' = cycle_no + 1

\* C11: every run() call, with or without a control sequence, copies the
\* first n_samples samples of the input as they were before the call to a
\* distinct output and writes no other sample; with the output aliased to the
\* input no buffer changes; no other step of the plugin writes audio.
C11_AudioPassThrough ==
  [][ /\ StartStep =>
           /\ \A b \in DOMAIN mem : b # p_out => mem'[b] = mem[b]
           /\ p_out = p_in => mem' = mem
           /\ p_out # p_in =>
                \A i \in 1 .. BufLen :
                  mem'[p_out][i] =
                    IF i <= n_samples' THEN mem[p_in][i] ELSE mem[p_out][i]
      /\ ~StartStep => mem' = mem ]_vars

\* C11 witness: a cycle without a control sequence, run with the request
\* already issued, has copied its two samples to the second buffer and left
\* the third as it was.
C11_Witness ==
  /\ pc = "idle" /\ ~last_conn /\ request_sent
  /\ p_out # p_in /\ n_samples = 2
  /\ mem[p_out][1] = mem[p_in][1] /\ mem[p_out][2] = mem[p_in][2]
  /\ mem[p_out][3] = 0 /\ mem[p_in][3] # 0

\* C12: request_sent only ever goes from FALSE to TRUE, and only in the part
\* of run() after the event loop: never in an iteration of the loop, in
\* connect_port or anywhere else.
C12_RequestSentIsLatched ==
  [][ /\ request_sent => request_sent'
      /\ request_sent' # request_sent => EndStep ]_vars

\* C12 witness: with the request sent in an earlier cycle, a later cycle is
\* decoding an event.
C12_Witness ==
  /\ request_sent /\ pc = "loop" /\ called = 1
  /\ cycle_no > req_calls[1].cycle

\* The step is a connect_port call; last_port' and last_data' are its
\* arguments.
ConnectStep ==
  /\ pc = "idle" /\ handle = "instance" /\ handle' = "instance"
  /\ cycle_no' = cycle_no /\ last_port' \in Ports

\* C18: connect_port with index 0, 1 or 2 sets the control sequence, the
\* audio input or the audio output to its data and leaves the other two
\* bindings; any other index changes no binding; no call changes
\* request_sent, the sample count, the identifier table or anything else of
\* the instance, nor the host's requests or audio.
C18_ConnectPortOnlyBinds ==
  [][ ConnectStep =>
        /\ control' = IF last_port' = 0 THEN last_data' ELSE control
        /\ p_in'    = IF last_port' = 1 THEN last_data' ELSE p_in
        /\ p_out'   = IF last_port' = 2 THEN last_data' ELSE p_out
        /\ UNCHANGED << request_sent, sample_cnt, uris, sample_rate, log,
                        request_value, dialog_message, req_calls, mem >> ]_vars

\* C18 witness: between two cycles, after the request, the control port was
\* disconnected while both audio ports stayed bound.
C18_Witness ==
  /\ last_port = 0 /\ last_data = NULL /\ control = NULL
  /\ p_in # NULL /\ p_out # NULL
  /\ request_sent /\ sample_cnt > 2 * sample_rate
  /\ cycle_no < MaxCycles

\* C13: the decoder reports the first failing check in the order: no
\* property member, property not a URID, no value member, and then by the
\* property named: a non-Bool value for #booltest, an unknown property for
\* any other id whatever the type of its value.
C13_FirstFailingCheckIsReported ==
  called = 1 =>
    LET property == PropertyOf(ev)
        val      == ValueOf(ev)
    IN  /\ property = NoAtom =>
             ret.msg = "Malformed set message has no body."
        /\ (property # NoAtom /\ property.type # uris.atom_URID) =>
             ret.msg = "Malformed set message has non-URID property."
        /\ (property # NoAtom /\ property.type = uris.atom_URID
              /\ val = NoAtom) =>
             ret.msg = "Malformed set message has no value."
        /\ (property # NoAtom /\ property.type = uris.atom_URID
              /\ val # NoAtom /\ property.body = uris.m_bool_test
              /\ val.type # uris.atom_Bool) =>
             ret.msg = "Invalid property type, expected 'bool'."
        /\ (property # NoAtom /\ property.type = uris.atom_URID
              /\ val # NoAtom /\ property.body # uris.m_bool_test) =>
             ret.msg = "Set message for unknown property."
        /\ ret.msg # "Received boolean" => (~ret.ret /\ ret.level = "error")

\* C13 witness: a set event whose property is not a URID and which has no
\* value was reported as having a non-URID property.
C13_Witness ==
  /\ called = 1
  /\ PropertyOf(ev) # NoAtom /\ PropertyOf(ev).type # uris.atom_URID
  /\ ValueOf(ev) = NoAtom
  /\ ret.msg = "Malformed set message has non-URID property."

\* C14: no event ends the loop.  Every iteration, whatever the decoder
\* returned for this or an earlier event, moves on by one event and stays in
\* the loop; after a failure the next event is still dispatched (decoded
\* exactly if it is a patch:Set object); and the loop is left only through
\* the request state machine and the sample-count update.
C14_NoEventEndsTheLoop ==
  [][ /\ (pc = "loop" /\ ev' # ev) => (pc' = "loop" /\ evcount' = evcount + 1)
      /\ (pc = "loop" /\ evcount' # evcount) =>
            (pc' = "loop" /\ evcount' = evcount + 1)
      /\ (EventStep /\ failures >= 1) =>
            ((called' = 1) <=>
               (ev'.type = uris.atom_Object /\ ev'.otype = uris.patch_Set))
      /\ (pc = "loop" /\ pc' # "loop") =>
            /\ sample_cnt' = sample_cnt + n_samples
            /\ request_sent' <=>
                 (request_sent \/ sample_cnt > 2 * sample_rate) ]_vars

\* C14 witness: a cycle whose first event failed to decode and whose second
\* event was decoded has completed and its samples were counted.
C14_Witness ==
  /\ pc = "idle" /\ last_conn
  /\ evcount = 2 /\ failures = 1
  /\ called = 1 /\ ret.ret
  /\ n_samples > 0 /\ sample_cnt = counted

\* C15: every call of the host's request operation is made with
\* request_sent already true, the payload holding the fixed message with
\* requires_return = false, and names the id of #booltest with the id of
\* atom:Bool; while the instance has not requested, the payload is the one
\* instantiate() left (msg unset, requires_return = true), and it has the
\* request's form exactly when the request has been made.
C15_RequestCarriesFixedPayload ==
  /\ \A i \in DOMAIN req_calls :
       /\ req_calls[i].sent
       /\ req_calls[i].message = [msg |-> "FOO BAR!", requires_return |-> FALSE]
       /\ req_calls[i].property = HostMap["#booltest"]
       /\ req_calls[i].type = HostMap["atom:Bool"]
  /\ (handle = "instance" /\ ~request_sent) =>
       /\ dialog_message = [msg |-> NULL, requires_return |-> TRUE]
       /\ req_calls = << >>
  /\ (handle = "instance" /\ request_sent) =>
       /\ dialog_message = [msg |-> "FOO BAR!", requires_return |-> FALSE]
       /\ Len(req_calls) = 1

\* C15 witness: the cycle that has just ended made the request.
C15_Witness ==
  /\ handle = "instance" /\ pc = "idle"
  /\ Len(req_calls) = 1 /\ req_calls[1].cycle = cycle_no
  /\ req_calls[1].sent /\ ~req_calls[1].message.requires_return
  /\ dialog_message.msg = "FOO BAR!"

\* C16: the threshold is tested on the samples of the earlier counted
\* cycles.  The step that ends a cycle's event loop issues the request
\* exactly if request_sent is false and the samples counted before this cycle
\* (the counted total less this cycle's n_samples) exceed 2 * sample_rate; no
\* other step issues it; and a cycle before which nothing was counted, such
\* as the first cycle of an instance, never does.
C16_GuardReadsEarlierCycles ==
  [][ /\ EndStep =>
           ((req_calls' # req_calls) <=>
              (~request_sent /\ counted - n_samples > 2 * sample_rate))
      /\ (EndStep /\ req_calls' # req_calls) =>
           /\ Len(req_calls') = Len(req_calls) + 1
           /\ req_calls'[Len(req_calls')].elapsed = counted - n_samples
           /\ request_sent'
      /\ (EndStep /\ (cycle_no = 1 \/ counted = n_samples)) =>
           (req_calls' = req_calls /\ ~request_sent')
      /\ ~EndStep => (req_calls' = req_calls /\ request_sent' = request_sent)
    ]_vars

\* C16 witness: the first cycle alone delivered more than 2 * sample_rate
\* samples and did not request; the second cycle did, on the first cycle's
\* samples.
C16_Witness ==
  /\ pc = "idle" /\ cycle_no = 2 /\ last_conn
  /\ counted - n_samples > 2 * sample_rate
  /\ Len(req_calls) = 1 /\ req_calls[1].cycle = 2
  /\ req_calls[1].elapsed = counted - n_samples

\* C17: if the host again and again runs a cycle with a control sequence
\* and at least one sample, the request is eventually issued, whatever
\* connect_port calls and control events come in between.
C17_RequestEventuallyIssued ==
  ([]<>(pc = "loop" /\ n_samples >= 1)) => <>(request_sent /\ Len(req_calls) = 1)

\* C17 witness: the request was issued in a host that reconnected the
\* control port and sent events the decoder rejected, and the count has gone
\* on since.
C17_Witness ==
  /\ request_sent /\ Len(req_calls) = 1
  /\ pc = "idle" /\ last_conn /\ failures >= 1
  /\ cycle_no = 0
  /\ sample_cnt # req_calls[1].elapsed + n_samples

=============================================================================
